---- MODULE Spec2Model ----
(***************************************************************************)
(* Model of simplify_urdf_collision/simplify.py: the bounding-box          *)
(* computation (calculate_bounding_box), the volume-ratio diagnostic       *)
(* (calculate_volume_ratio) and the main loop that replaces every selected *)
(* collision mesh of a URDF by a box.                                      *)
(*                                                                         *)
(* Numbers: lengths are integers (one unit is half a metre of the spec's   *)
(* examples, so a unit cube has half-extent 1 and size 2); angles are      *)
(* quarter turns; rotations are signed permutation matrices, on which the  *)
(* matrix products, inverses, Euler conversions and the affine             *)
(* decomposition of transforms3d are exact.  A quotient a / b is kept as   *)
(* the pair <<a, b>>.                                                      *)
(***************************************************************************)
EXTENDS Integers, Sequences, FiniteSets, TLC

VARIABLES
    args,           \* the parsed command line (argparse namespace)
    geometry,       \* shape -> c.geometry of the in-memory URDF
    origin,         \* shape -> c.origin (position, rotation) of the in-memory URDF
    filename_dict,  \* the selected links, in order (keys of filename_dict)
    pc,             \* position of the program
    li,             \* position of the outer loop in filename_dict
    i,              \* the counter i printed in the link header
    k,              \* position of the inner loop in collision_models
    mesh,           \* the mesh loaded for the current shape
    mesh0,          \* history: that mesh as it was loaded
    bb_size,        \* size returned by calculate_bounding_box
    bb_tf,          \* transform returned by calculate_bounding_box
    decomp,         \* what decompose44 returned: T, R, Z, S
    volume_ratio,   \* what calculate_volume_ratio returned
    report,         \* the lines printed by the main loop
    output,         \* the document written by write_urdf, or None
    error,          \* the exception that ended the run, or None
    raised,         \* whether the last call of calculate_bounding_box raised
    geometry0,      \* history: geometry before the run
    origin0,        \* history: origin before the run
    posed,          \* history: the shapes whose pose was replaced, in order
    processed       \* history: the shapes whose geometry was replaced, in order

vars == <<args, geometry, origin, filename_dict, pc, li, i, k, mesh, mesh0, bb_size,
          bb_tf, decomp, volume_ratio, report, output, error, raised,
          geometry0, origin0, posed, processed>>

(***************************************************************************)
(* Bounds of the model                                                     *)
(***************************************************************************)
NumLinks == 2
MaxScale == 2

\* an optional value: None, or the one-element tuple of the value
None == <<>>
Some(v) == <<v>>
Axes == 1 .. 3

Max(a, b) == IF a >= b THEN a ELSE b
Abs(a) == IF a < 0 THEN -a ELSE a

(***************************************************************************)
(* Linear algebra on integer 3-vectors and 3x3 matrices (numpy)            *)
(***************************************************************************)
I3 == << <<1, 0, 0>>, <<0, 1, 0>>, <<0, 0, 1>> >>
Zero3 == <<0, 0, 0>>

Dot(u, v) == u[1] * v[1] + u[2] * v[2] + u[3] * v[3]
Col(M, j) == <<M[1][j], M[2][j], M[3][j]>>
Transpose(M) == <<Col(M, 1), Col(M, 2), Col(M, 3)>>
MatVec(M, v) == <<Dot(M[1], v), Dot(M[2], v), Dot(M[3], v)>>
MatMul(A, B) == [r \in Axes |-> [c \in Axes |-> Dot(A[r], Col(B, c))]]
VecAdd(u, v) == [a \in Axes |-> u[a] + v[a]]
VecNeg(u) == [a \in Axes |-> -u[a]]
Det(M) ==
      M[1][1] * (M[2][2] * M[3][3] - M[2][3] * M[3][2])
    - M[1][2] * (M[2][1] * M[3][3] - M[2][3] * M[3][1])
    + M[1][3] * (M[2][1] * M[3][2] - M[2][2] * M[3][1])

\* math.sqrt on the perfect squares the model meets
Sqrt(n) == CHOOSE r \in 0 .. n : r * r = n

\* a 4x4 affine matrix [R T; 0 1]
Affine(R, T) == [R |-> R, T |-> T]
Eye4 == Affine(I3, Zero3)
\* np.matmul of two affine matrices
AffMul(A, B) == Affine(MatMul(A.R, B.R), VecAdd(MatVec(A.R, B.T), A.T))
\* np.linalg.inv of an affine matrix whose linear part is orthogonal
AffInv(A) == Affine(Transpose(A.R), VecNeg(MatVec(Transpose(A.R), A.T)))
AffApply(A, p) == VecAdd(MatVec(A.R, p), A.T)

(***************************************************************************)
(* transforms3d                                                            *)
(***************************************************************************)
Sin(q) == <<0, 1, 0, -1>>[(q % 4) + 1]
Cos(q) == <<1, 0, -1, 0>>[(q % 4) + 1]

\* math.atan2 on the unit axes, in quarter turns in (-2, 2]
Atan2(y, x) ==
    CASE y = 0 /\ x > 0 -> 0
      [] y > 0 /\ x = 0 -> 1
      [] y = 0 /\ x < 0 -> 2
      [] y < 0 /\ x = 0 -> -1
      [] OTHER -> 0

\* transforms3d.euler.euler2mat(ai, aj, ak, axes="sxyz")
euler2mat(ai, aj, ak) ==
    LET si == Sin(ai)  sj == Sin(aj)  sk == Sin(ak)
        ci == Cos(ai)  cj == Cos(aj)  ck == Cos(ak)
        cc == ci * ck  cs == ci * sk
        sc == si * ck  ss == si * sk
    IN  << <<cj * ck, sj * sc - cs, sj * cc + ss>>,
           <<cj * sk, sj * ss + cc, sj * cs - sc>>,
           <<-sj,     cj * si,      cj * ci>> >>

\* transforms3d.euler.mat2euler(M, axes="sxyz")
mat2euler(M) ==
    LET cy == Sqrt(M[1][1] * M[1][1] + M[2][1] * M[2][1])
    IN  IF cy > 0
        THEN <<Atan2(M[3][2], M[3][3]), Atan2(-M[3][1], cy), Atan2(M[2][1], M[1][1])>>
        ELSE <<Atan2(-M[2][3], M[2][2]), Atan2(-M[3][1], cy), 0>>

\* transforms3d.affines.compose(T, R, Z=[1,1,1])
compose(T, R) == Affine(R, T)

\* transforms3d.affines.decompose44(A): Gram-Schmidt on the columns of the
\* linear part; the columns the model meets are orthogonal, so the shears are
\* the (zero) dot products and every norm is a whole number
decompose44(A) ==
    LET M0 == Col(A.R, 1)
        M1 == Col(A.R, 2)
        M2 == Col(A.R, 3)
        sx == Sqrt(Dot(M0, M0))
        sy == Sqrt(Dot(M1, M1))
        sz == Sqrt(Dot(M2, M2))
        N0 == [a \in Axes |-> M0[a] \div sx]
        N1 == [a \in Axes |-> M1[a] \div sy]
        N2 == [a \in Axes |-> M2[a] \div sz]
        Rmat == Transpose(<<N0, N1, N2>>)
        S == <<Dot(N0, M1), Dot(N0, M2), Dot(N1, M2)>>
    IN  IF Det(Rmat) < 0
        THEN [T |-> A.T, R |-> Transpose(<<VecNeg(N0), N1, N2>>),
              Z |-> <<-sx, sy, sz>>, S |-> S]
        ELSE [T |-> A.T, R |-> Rmat, Z |-> <<sx, sy, sz>>, S |-> S]

(***************************************************************************)
(* trimesh: a mesh is a cuboid surface; R, c and h are the axes, the centre *)
(* and the half-extents of the oriented box trimesh fits to it, in the     *)
(* mesh's local frame.  It has an enclosed volume (whose computation may   *)
(* raise) and a convex hull (whose construction may raise).                *)
(***************************************************************************)
Rz90 == << <<0, -1, 0>>, <<1, 0, 0>>, <<0, 0, 1>> >>
Mirror == << <<-1, 0, 0>>, <<0, 1, 0>>, <<0, 0, 1>> >>

Mesh(R, c, h, volume, volume_ok, hull_ok) ==
    [R |-> R, c |-> c, h |-> h, volume |-> volume, volume_ok |-> volume_ok,
     hull_ok |-> hull_ok]

NoMesh == Mesh(I3, Zero3, Zero3, 0, FALSE, FALSE)

\* the mesh files on disk
\* ("mirror.stl" stands for a mesh to which trimesh fits a left-handed frame)
ReadableFiles == {"cube.stl", "arm.stl", "plate.stl", "shell.stl", "mirror.stl"}
MeshOnDisk(f) ==
    CASE f = "cube.stl"  -> Mesh(I3, Zero3, <<1, 1, 1>>, 8, TRUE, TRUE)
      [] f = "arm.stl"   -> Mesh(Rz90, <<2, 0, 1>>, <<1, 2, 3>>, 48, TRUE, TRUE)
      [] f = "plate.stl" -> Mesh(I3, <<0, 1, 0>>, <<1, 1, 0>>, 0, TRUE, FALSE)
      [] f = "shell.stl" -> Mesh(I3, <<0, 0, 3>>, <<2, 1, 1>>, 0, FALSE, TRUE)
      [] f = "mirror.stl" -> Mesh(Mirror, <<1, 0, 0>>, <<1, 2, 1>>, 16, TRUE, TRUE)
      [] OTHER -> NoMesh

\* trimesh.load(filename): the mesh, or an exception
load(f) == [ok |-> f \in ReadableFiles, mesh |-> MeshOnDisk(f)]

\* mesh.bounds: the axis-aligned bounds <<min, max>> in the mesh's local frame
bounds(m) ==
    LET e == [a \in Axes |-> Abs(m.R[a][1]) * m.h[1] + Abs(m.R[a][2]) * m.h[2]
                             + Abs(m.R[a][3]) * m.h[3]]
    IN  << [a \in Axes |-> m.c[a] - e[a]], [a \in Axes |-> m.c[a] + e[a]] >>

\* mesh.convex_hull: the hull (with the extents of the mesh), or an exception
convex_hull(m) == [ok |-> m.hull_ok, mesh |-> m]

\* mesh.apply_obb(): moves the mesh so that its oriented box is centred on the
\* origin and axis-aligned, and returns the matrix that was applied
apply_obb(m) ==
    [matrix |-> AffInv(Affine(m.R, m.c)),
     mesh   |-> [m EXCEPT !.R = I3, !.c = Zero3]]

\* mesh.bounding_box_oriented.bounds
obb_bounds(m) == bounds(m)

(***************************************************************************)
(* calculate_bounding_box                                                  *)
(***************************************************************************)
BoxReturn(size, tf, m) == [raised |-> FALSE, bb_size |-> size, bb_tf |-> tf, mesh |-> m]
BoxRaise(m) == [raised |-> TRUE, bb_size |-> Zero3, bb_tf |-> Eye4, mesh |-> m]

\* the three statements of every oriented branch, on the mesh or on its hull
ObbOf(m) ==
    LET a == apply_obb(m)
        b == obb_bounds(a.mesh)
    IN  [bb_tf |-> AffInv(a.matrix),
         bb_size |-> <<b[2][1] * 2, b[2][2] * 2, b[2][3] * 2>>,
         moved |-> a.mesh]

\* faulty variant: no except clause, the failure of the hull leaves the function
TightObb_noFallback(m) ==
    LET hull == convex_hull(m)
    IN  IF hull.ok
        THEN BoxReturn(ObbOf(hull.mesh).bb_size, ObbOf(hull.mesh).bb_tf, m)
        ELSE BoxRaise(m)

\* oriented box with tight_fit: the hull, or the mesh when the hull fails
TightObb(m) ==
    LET hull == convex_hull(m)
    IN  IF hull.ok
        THEN BoxReturn(ObbOf(hull.mesh).bb_size, ObbOf(hull.mesh).bb_tf, m)
        ELSE BoxReturn(ObbOf(m).bb_size, ObbOf(m).bb_tf, ObbOf(m).moved)

\* axis-aligned bounds with tight_fit: the hull's, or the mesh's
TightBounds(m) ==
    LET hull == convex_hull(m)
    IN  IF hull.ok THEN bounds(hull.mesh) ELSE bounds(m)

\* lines 32-64: the raw size and the alignment
RawBox(m, bbox_type, tight_fit) ==
    IF bbox_type = "obb"
    THEN IF tight_fit
         THEN TightObb(m)
         ELSE BoxReturn(ObbOf(m).bb_size, ObbOf(m).bb_tf, ObbOf(m).moved)
    ELSE LET bb_bounds == IF tight_fit THEN TightBounds(m) ELSE bounds(m)
         IN  BoxReturn(<<bb_bounds[2][1] - bb_bounds[1][1],
                         bb_bounds[2][2] - bb_bounds[1][2],
                         bb_bounds[2][3] - bb_bounds[1][3]>>, Eye4, m)

\* faulty variant: "x or default" instead of "x if x is not None else default"
scales_truthy(a) ==
    << IF a.scale_x # None /\ a.scale_x[1] # 0 THEN a.scale_x[1] ELSE a.scale,
       IF a.scale_y # None /\ a.scale_y[1] # 0 THEN a.scale_y[1] ELSE a.scale,
       IF a.scale_z # None /\ a.scale_z[1] # 0 THEN a.scale_z[1] ELSE a.scale >>

scales(a) ==
    << IF a.scale_x # None THEN a.scale_x[1] ELSE a.scale,
       IF a.scale_y # None THEN a.scale_y[1] ELSE a.scale,
       IF a.scale_z # None THEN a.scale_z[1] ELSE a.scale >>

paddings(a) ==
    << IF a.padding_x # None THEN a.padding_x[1] ELSE a.padding,
       IF a.padding_y # None THEN a.padding_y[1] ELSE a.padding,
       IF a.padding_z # None THEN a.padding_z[1] ELSE a.padding >>

\* lines 81-82
FinalDims(size, sc, pad, min_size) ==
    [a \in Axes |-> Max(size[a] * sc[a] + 2 * pad[a], min_size)]

calculate_bounding_box(m, a) ==
    LET raw == RawBox(m, a.bbox_type, a.tight_fit)
    IN  IF raw.raised
        THEN raw
        ELSE BoxReturn(FinalDims(raw.bb_size, scales(a), paddings(a), a.min_size),
                       raw.bb_tf, raw.mesh)

(***************************************************************************)
(* calculate_volume_ratio                                                  *)
(***************************************************************************)
Float(num, den) == [type |-> "float", inf |-> FALSE, num |-> num, den |-> den]
\* float('inf')
FloatInf == [type |-> "float", inf |-> TRUE, num |-> 1, den |-> 0]
NoRatio == [type |-> "unset", inf |-> FALSE, num |-> 0, den |-> 1]

calculate_volume_ratio(m, size) ==
    IF ~m.volume_ok
    THEN FloatInf
    ELSE LET bb_volume == size[1] * size[2] * size[3]
         IN  IF m.volume > 0 THEN Float(bb_volume, m.volume) ELSE FloatInf

(***************************************************************************)
(* The URDF in memory and the command line                                 *)
(***************************************************************************)
Links == 1 .. NumLinks
\* the first link carries two collision shapes, every other link one
ShapeCount(l) == IF l = 1 THEN 2 ELSE 1
Shapes == {s \in Links \X (1 .. 2) : s[2] <= ShapeCount(s[1])}

MeshGeometry(f) == [type |-> "mesh", filename |-> f, size |-> Zero3]
\* urdf_parser_py.urdf.Box(size)
Box(size) == [type |-> "box", filename |-> "", size |-> size]
Pose(position, rotation) == [position |-> position, rotation |-> rotation]
Collision(f, position, rotation) ==
    [geometry |-> MeshGeometry(f), origin |-> Pose(position, rotation)]

\* the collision elements a URDF of the model is made of
Collisions ==
    { Collision("cube.stl", Zero3, Zero3),
      Collision("arm.stl", <<1, 0, 2>>, <<0, 1, 0>>),
      Collision("plate.stl", <<0, 3, 0>>, <<1, 0, 2>>),
      Collision("missing.stl", Zero3, Zero3) }
\* the same, with a mesh to which trimesh fits a left-handed frame
CollisionsDefect == Collisions \cup {Collision("mirror.stl", <<0, 1, 0>>, <<0, 0, 1>>)}

Args(bbox, tight, verbose, exclude, scale, sx, sy, sz, pad, px, py, pz, min_size) ==
    [bbox_type |-> bbox, tight_fit |-> tight, verbose |-> verbose,
     exclude |-> exclude, scale |-> scale, scale_x |-> sx, scale_y |-> sy,
     scale_z |-> sz, padding |-> pad, padding_x |-> px, padding_y |-> py,
     padding_z |-> pz, min_size |-> min_size]

BBoxTypes == {"obb", "aabb"}

\* command lines of the runs: default scale, no per-axis override
RunArgs ==
    { Args(b, t, v, e, 1, None, None, None, 0, None, None, None, m) :
        b \in BBoxTypes, t \in BOOLEAN, v \in BOOLEAN, e \in SUBSET Links,
        m \in {0, 1} }

\* arguments of the calls of calculate_bounding_box
ScaleOverrides == {None, Some(0), Some(MaxScale)}
PaddingOverrides == {None, Some(0)}
CalcArgs ==
    { Args(b, t, FALSE, {}, s, o[1], o[2], o[3], p, q[1], q[2], q[3], m) :
        b \in BBoxTypes, t \in BOOLEAN, s \in 1 .. MaxScale,
        o \in ScaleOverrides \X ScaleOverrides \X ScaleOverrides,
        p \in {-1, 0, 1},
        q \in PaddingOverrides \X PaddingOverrides \X PaddingOverrides,
        m \in {0, 3} }
CalcFiles == {"cube.stl", "arm.stl", "plate.stl", "shell.stl"}
CalcMeshes == {[MeshOnDisk(f) EXCEPT !.hull_ok = h] : f \in CalcFiles, h \in BOOLEAN}

Line(kind, link, index, total, file, size, ratio) ==
    [kind |-> kind, link |-> link, index |-> index, total |-> total, file |-> file,
     size |-> size, ratio |-> ratio]
NoDecomp == [T |-> Zero3, R |-> I3, Z |-> <<1, 1, 1>>, S |-> Zero3]
NoOutput == [written |-> FALSE, geometry |-> <<>>, origin |-> <<>>]

(***************************************************************************)
(* The main program                                                        *)
(***************************************************************************)
LinkSeq == [l \in Links |-> l]
Selected(l) == l \notin args.exclude

\* URDFHandler(input, exclude).get_filenames(select): the links that are not
\* excluded, in the order of the document
get_filenames == SelectSeq(LinkSeq, Selected)

\* faulty variant: the loop runs over every link of the document
LoopItems_all == LinkSeq

\* "for link, collision_models in filename_dict.items()"
LoopItems == filename_dict

collision_models(l) == [n \in 1 .. ShapeCount(l) |-> <<l, n>>]
link == LoopItems[li]
c == collision_models(link)[k]

InitRun(colls) ==
    /\ args \in RunArgs
    /\ \E u \in [Shapes -> colls] :
          /\ geometry = [s \in Shapes |-> u[s].geometry]
          /\ origin = [s \in Shapes |-> u[s].origin]
    /\ geometry0 = geometry
    /\ origin0 = origin
    /\ filename_dict = <<>>
    /\ pc = "start"
    /\ li = 0
    /\ i = 0
    /\ k = 0
    /\ mesh = NoMesh
    /\ mesh0 = NoMesh
    /\ bb_size = Zero3
    /\ bb_tf = Eye4
    /\ decomp = NoDecomp
    /\ volume_ratio = NoRatio
    /\ report = <<>>
    /\ output = NoOutput
    /\ error = ""
    /\ raised = FALSE
    /\ posed = <<>>
    /\ processed = <<>>

Init == InitRun(Collisions)
InitDefect == InitRun(CollisionsDefect)

\* lines 121-136
Select ==
    /\ pc = "start"
    /\ filename_dict' = get_filenames
    /\ i' = 1
    /\ li' = 1
    /\ pc' = "links"
    /\ UNCHANGED <<args, geometry, origin, k, mesh, mesh0, bb_size, bb_tf, decomp,
                   volume_ratio, report, output, error, raised, geometry0, origin0,
                   posed, processed>>

\* lines 138-139: the next link and its header line
LinkHeader ==
    /\ pc = "links"
    /\ li <= Len(LoopItems)
    /\ report' = Append(report,
                        Line("link", link, i, Len(filename_dict), "", Zero3, NoRatio))
    /\ k' = 1
    /\ pc' = "shapes"
    /\ UNCHANGED <<args, geometry, origin, filename_dict, li, i, mesh, mesh0, bb_size,
                   bb_tf, decomp, volume_ratio, output, error, raised, geometry0,
                   origin0, posed, processed>>

\* faulty variant: an unreadable mesh is skipped and the loop goes on
LoadMesh_skip ==
    /\ pc = "shapes"
    /\ k <= Len(collision_models(link))
    /\ LET r == load(geometry[c].filename)
       IN  IF r.ok
           THEN /\ mesh' = r.mesh
                /\ mesh0' = r.mesh
                /\ pc' = "bbox"
                /\ UNCHANGED <<k, error>>
           ELSE /\ k' = k + 1
                /\ UNCHANGED <<mesh, mesh0, pc, error>>
    /\ UNCHANGED <<args, geometry, origin, filename_dict, li, i, bb_size, bb_tf,
                   decomp, volume_ratio, report, output, raised, geometry0, origin0,
                   posed, processed>>

\* lines 140-145: the next shape of the link; its mesh is loaded, or the
\* exception of trimesh.load ends the program
LoadMesh ==
    /\ pc = "shapes"
    /\ k <= Len(collision_models(link))
    /\ LET r == load(geometry[c].filename)
       IN  IF r.ok
           THEN /\ mesh' = r.mesh
                /\ mesh0' = r.mesh
                /\ pc' = "bbox"
                /\ UNCHANGED error
           ELSE /\ pc' = "aborted"
                /\ error' = "MeshLoadError"
                /\ UNCHANGED <<mesh, mesh0>>
    /\ UNCHANGED <<args, geometry, origin, filename_dict, li, i, k, bb_size, bb_tf,
                   decomp, volume_ratio, report, output, raised, geometry0, origin0,
                   posed, processed>>

\* lines 148-161
CallBoundingBox ==
    /\ pc = "bbox"
    /\ LET r == calculate_bounding_box(mesh, args)
       IN  /\ raised' = r.raised
           /\ mesh' = r.mesh
           /\ IF r.raised
              THEN /\ pc' = "aborted"
                   /\ error' = "Exception"
                   /\ UNCHANGED <<bb_size, bb_tf>>
              ELSE /\ bb_size' = r.bb_size
                   /\ bb_tf' = r.bb_tf
                   /\ pc' = "pose"
                   /\ UNCHANGED error
    /\ UNCHANGED <<args, geometry, origin, filename_dict, li, i, k, mesh0, decomp,
                   volume_ratio, report, output, geometry0, origin0, posed, processed>>

\* lines 163-169
ComposePose ==
    /\ pc = "pose"
    /\ LET rot == origin[c].rotation
           original_rotation == euler2mat(rot[1], rot[2], rot[3])
           original_transformation_affine == compose(origin[c].position, original_rotation)
           new_affine == AffMul(original_transformation_affine, bb_tf)
           d == decompose44(new_affine)
       IN  /\ decomp' = d
           /\ origin' = [origin EXCEPT ![c] = Pose(d.T, mat2euler(d.R))]
    /\ posed' = Append(posed, c)
    /\ pc' = "geom"
    /\ UNCHANGED <<args, geometry, filename_dict, li, i, k, mesh, mesh0, bb_size, bb_tf,
                   volume_ratio, report, output, error, raised, geometry0, origin0,
                   processed>>

\* faulty variant: the box is built and never assigned to c.geometry
ReplaceGeometry_forgot ==
    /\ pc = "geom"
    /\ pc' = "report"
    /\ UNCHANGED <<args, geometry, origin, filename_dict, li, i, k, mesh, mesh0, bb_size,
                   bb_tf, decomp, volume_ratio, report, output, error, raised, geometry0,
                   origin0, posed, processed>>

\* lines 170-171
ReplaceGeometry ==
    /\ pc = "geom"
    /\ geometry' = [geometry EXCEPT ![c] = Box(bb_size)]
    /\ processed' = Append(processed, c)
    /\ pc' = "report"
    /\ UNCHANGED <<args, origin, filename_dict, li, i, k, mesh, mesh0, bb_size, bb_tf,
                   decomp, volume_ratio, report, output, error, raised, geometry0,
                   origin0, posed>>

\* len([m for m in collision_models if m == c])
CountEqual(models, x) == Cardinality({n \in 1 .. Len(models) : models[n] = x})

\* lines 174-182: the line of the shape, and the next shape
Report ==
    /\ pc = "report"
    /\ IF args.verbose
       THEN LET r == calculate_volume_ratio(mesh, bb_size)
            IN  /\ volume_ratio' = r
                /\ report' = Append(report,
                       Line("mesh", 0, 0, 0, geometry0[c].filename, bb_size,
                            IF r # FloatInf THEN r ELSE NoRatio))
       ELSE /\ IF Len(collision_models(link)) > 1
               THEN report' = Append(report,
                       Line("short", 0, CountEqual(collision_models(link), c), 0, "",
                            bb_size, NoRatio))
               ELSE UNCHANGED report
            /\ UNCHANGED volume_ratio
    /\ k' = k + 1
    /\ pc' = "shapes"
    /\ UNCHANGED <<args, geometry, origin, filename_dict, li, i, mesh, mesh0, bb_size,
                   bb_tf, decomp, output, error, raised, geometry0, origin0, posed, processed>>

\* line 183: the shapes of the link are done
EndLink ==
    /\ pc = "shapes"
    /\ k > Len(collision_models(link))
    /\ i' = i + 1
    /\ li' = li + 1
    /\ pc' = "links"
    /\ UNCHANGED <<args, geometry, origin, filename_dict, k, mesh, mesh0, bb_size,
                   bb_tf, decomp, volume_ratio, report, output, error, raised,
                   geometry0, origin0, posed, processed>>

\* lines 184-185: the loop is over, the document is written
WriteUrdf ==
    /\ pc = "links"
    /\ li > Len(LoopItems)
    /\ output' = [written |-> TRUE, geometry |-> geometry, origin |-> origin]
    /\ pc' = "done"
    /\ UNCHANGED <<args, geometry, origin, filename_dict, li, i, k, mesh, mesh0,
                   bb_size, bb_tf, decomp, volume_ratio, report, error, raised,
                   geometry0, origin0, posed, processed>>

Next ==
    \/ Select
    \/ LinkHeader
    \/ LoadMesh
    \/ CallBoundingBox
    \/ ComposePose
    \/ ReplaceGeometry
    \/ Report
    \/ EndLink
    \/ WriteUrdf

Spec == Init /\ [][Next]_vars
SpecDefect == InitDefect /\ [][Next]_vars

(***************************************************************************)
(* The two functions, called on their own                                  *)
(***************************************************************************)
InitCalc ==
    /\ args \in CalcArgs
    /\ mesh \in CalcMeshes
    /\ mesh0 = mesh
    /\ geometry = [s \in Shapes |-> MeshGeometry("")]
    /\ origin = [s \in Shapes |-> Pose(Zero3, Zero3)]
    /\ geometry0 = geometry
    /\ origin0 = origin
    /\ filename_dict = <<>>
    /\ pc = "call"
    /\ li = 0
    /\ i = 0
    /\ k = 0
    /\ bb_size = Zero3
    /\ bb_tf = Eye4
    /\ decomp = NoDecomp
    /\ volume_ratio = NoRatio
    /\ report = <<>>
    /\ output = NoOutput
    /\ error = ""
    /\ raised = FALSE
    /\ posed = <<>>
    /\ processed = <<>>

\* bb_size, bb_tf = calculate_bounding_box(mesh, ...)
CalcBox ==
    /\ pc = "call"
    /\ LET r == calculate_bounding_box(mesh, args)
       IN  /\ raised' = r.raised
           /\ mesh' = r.mesh
           /\ bb_size' = r.bb_size
           /\ bb_tf' = r.bb_tf
    /\ pc' = "returned"
    /\ UNCHANGED <<args, geometry, origin, filename_dict, li, i, k, mesh0, decomp,
                   volume_ratio, report, output, error, geometry0, origin0, posed, processed>>

\* volume_ratio = calculate_volume_ratio(mesh, bb_size)
CalcRatio ==
    /\ pc = "returned"
    /\ ~raised
    /\ volume_ratio' = calculate_volume_ratio(mesh, bb_size)
    /\ pc' = "ratio"
    /\ UNCHANGED <<args, geometry, origin, filename_dict, li, i, k, mesh, mesh0, bb_size,
                   bb_tf, decomp, report, output, error, raised, geometry0, origin0,
                   posed, processed>>

NextCalc ==
    \/ CalcBox
    \/ CalcRatio

SpecCalc == InitCalc /\ [][NextCalc]_vars

(***************************************************************************)
(* Claims about calculate_bounding_box and calculate_volume_ratio          *)
(* (checked under SpecCalc)                                                *)
(***************************************************************************)
Returned == pc \in {"returned", "ratio"}
ScaleOverride(ax) == <<args.scale_x, args.scale_y, args.scale_z>>[ax]
PaddingOverride(ax) == <<args.padding_x, args.padding_y, args.padding_z>>[ax]
EffScale(ax) == IF ScaleOverride(ax) = None THEN args.scale ELSE ScaleOverride(ax)[1]
EffPadding(ax) == IF PaddingOverride(ax) = None THEN args.padding ELSE PaddingOverride(ax)[1]
Size0 == RawBox(mesh0, args.bbox_type, args.tight_fit).bb_size

\* C1: on every axis the returned size is max(size0 * effScale + 2 * effPadding,
\* min_size), where the effective scale and padding of the axis are its
\* override when one is given (a 0 included) and the uniform value otherwise;
\* scale is applied before padding and no axis depends on another.
C1_AdjustedSize ==
    Returned =>
        /\ ~raised
        /\ \A ax \in Axes :
              bb_size[ax] = Max(Size0[ax] * EffScale(ax) + 2 * EffPadding(ax), args.min_size)

\* a cube of size 2, scale 2, padding 1, min_size 0, with scale_x = 0 and
\* padding_z = 0 given: 0*2+2, 2*2+2 (the spec's [3,3,3] example, doubled), 2*2+0
C1_Witness ==
    /\ pc = "returned"
    /\ mesh0 = MeshOnDisk("cube.stl")
    /\ args.bbox_type = "aabb"
    /\ args.scale = 2 /\ args.padding = 1 /\ args.min_size = 0
    /\ args.scale_x = Some(0) /\ args.scale_y = None /\ args.scale_z = None
    /\ args.padding_x = None /\ args.padding_y = None /\ args.padding_z = Some(0)
    /\ bb_size = <<2, 6, 4>>

\* C7: with tight_fit set and a convex hull that cannot be built, the call
\* raises nothing and returns the size and the alignment it returns for the
\* same mesh and arguments with tight_fit unset, for both box types.
C7_HullFallback ==
    (Returned /\ args.tight_fit /\ ~mesh0.hull_ok) =>
        LET r == calculate_bounding_box(mesh0, [args EXCEPT !.tight_fit = FALSE])
        IN  /\ ~raised
            /\ ~r.raised
            /\ bb_size = r.bb_size
            /\ bb_tf = r.bb_tf

\* the oriented box of the turned, off-centre mesh, its hull failing
C7_Witness ==
    /\ pc = "returned"
    /\ args.tight_fit
    /\ ~mesh0.hull_ok
    /\ args.bbox_type = "obb"
    /\ mesh0.R = Rz90
    /\ bb_tf = Affine(Rz90, <<2, 0, 1>>)
    /\ ~raised

\* C4: calculate_volume_ratio never raises; for a mesh volume that is not
\* positive or cannot be computed it returns an Undefined outcome that is not a
\* number; a number is returned only for a volume > 0 and is then positive,
\* finite and equal to boxVolume / meshVolume.
C4_RatioOrUndefined ==
    pc = "ratio" =>
        LET undefined == ~mesh0.volume_ok \/ mesh0.volume <= 0
        IN  /\ undefined => volume_ratio.type # "float"
            /\ volume_ratio.type = "float" =>
                  /\ ~undefined
                  /\ ~volume_ratio.inf
                  /\ volume_ratio.num = bb_size[1] * bb_size[2] * bb_size[3]
                  /\ volume_ratio.den = mesh0.volume
                  /\ volume_ratio.num > 0

(***************************************************************************)
(* Claims about a run of the main program (checked under Spec, and C8      *)
(* under SpecDefect)                                                       *)
(***************************************************************************)
IsBox(s) == geometry[s].type = "box"
Count(seq, x) == Cardinality({n \in 1 .. Len(seq) : seq[n] = x})
InSeq(seq, x) == \E n \in 1 .. Len(seq) : seq[n] = x

\* the shapes of the links that are not excluded, link by link
RECURSIVE ShapesUpTo(_)
ShapesUpTo(n) ==
    IF n = 0
    THEN <<>>
    ELSE ShapesUpTo(n - 1) \o (IF n \in args.exclude THEN <<>> ELSE collision_models(n))
ExpectedOrder == ShapesUpTo(NumLinks)

\* C2: every dimension of every box written into the model is > 0, whatever
\* the mesh and whatever --scale, --padding and --min-size are.
C2_PositiveDims ==
    \A s \in Shapes : IsBox(s) => \A ax \in Axes : geometry[s].size[ax] > 0

\* the corners of the bounds the size was taken from, in the mesh's local frame
BoundsCorners(m, bbox_type) ==
    LET signs == {-1, 1} \X {-1, 1} \X {-1, 1}
    IN  IF bbox_type = "aabb"
        THEN { [ax \in Axes |-> IF g[ax] < 0 THEN bounds(m)[1][ax] ELSE bounds(m)[2][ax]] :
                 g \in signs }
        ELSE { AffApply(Affine(m.R, m.c), [ax \in Axes |-> g[ax] * m.h[ax]]) : g \in signs }

\* the box of shape s, centred on its new pose, covers the bounds of mesh m
\* placed at the shape's original pose
BoxCovers(s, m) ==
    LET old == compose(origin0[s].position,
                       euler2mat(origin0[s].rotation[1], origin0[s].rotation[2],
                                 origin0[s].rotation[3]))
        new == compose(origin[s].position,
                       euler2mat(origin[s].rotation[1], origin[s].rotation[2],
                                 origin[s].rotation[3]))
    IN  \A p \in BoundsCorners(m, args.bbox_type) :
            LET q == AffApply(AffInv(new), AffApply(old, p))
            IN  \A ax \in Axes : 2 * Abs(q[ax]) <= geometry[s].size[ax]

\* C3: with scale 1 and padding 0 the replacement box at the new pose covers,
\* on every axis, the bounds of the mesh where the mesh sat, for both box
\* types and also when the bounds are not centred on the mesh's origin.
C3_BoxCoversMesh ==
    (pc = "report" /\ args.scale = 1 /\ args.padding = 0) => BoxCovers(c, mesh0)

\* C5: a failure on a shape ends the run at that shape: every earlier shape
\* has been processed, no later one is, and nothing is written; the document
\* is written only after every selected shape has been processed.
C5_AbortBeforeWrite ==
    /\ (error # "") = (pc = "aborted")
    /\ pc = "aborted" =>
          /\ ~output.written
          /\ Len(processed) < Len(ExpectedOrder)
          /\ processed = SubSeq(ExpectedOrder, 1, Len(processed))
          /\ c = ExpectedOrder[Len(processed) + 1]
          /\ \A n \in (Len(processed) + 1) .. Len(ExpectedOrder) :
                geometry[ExpectedOrder[n]] = geometry0[ExpectedOrder[n]]
    /\ output.written => (error = "" /\ processed = ExpectedOrder)

\* the second of three selected shapes cannot be loaded
C5_Witness ==
    /\ pc = "aborted"
    /\ error = "MeshLoadError"
    /\ Len(processed) = 1
    /\ Len(ExpectedOrder) = 3
    /\ IsBox(ExpectedOrder[1])
    /\ ~IsBox(ExpectedOrder[3])

\* C6: the geometry and the pose of every collision shape of an excluded link
\* are, during and after a run, what they were before it.
C6_ExcludedUntouched ==
    \A s \in Shapes :
        s[1] \in args.exclude => (geometry[s] = geometry0[s] /\ origin[s] = origin0[s])

\* a finished run that replaced the shapes of one link and excluded the other
C6_Witness ==
    /\ pc = "done"
    /\ args.exclude = {2}
    /\ Len(processed) = 2
    /\ ~IsBox(<<2, 1>>)

NonRigid(d) == d.Z # <<1, 1, 1>> \/ d.S # Zero3

\* C8: when the decomposition of the composed affine is not rigid the run
\* ends with a DegenerateTransformError, and the pose of the shape is not
\* overwritten.
C8_NonRigidIsFatal ==
    NonRigid(decomp) =>
        /\ pc = "aborted"
        /\ error = "DegenerateTransformError"
        /\ \A s \in Shapes : ~InSeq(processed, s) => origin[s] = origin0[s]

ShapeLines == SelectSeq(report, LAMBDA ln : ln.kind # "link")
\* the link of the header line above line j of the report
LinkAbove(j) ==
    LET hs == {h \in 1 .. j : report[h].kind = "link"}
    IN  IF hs = {} THEN 0 ELSE report[CHOOSE h \in hs : \A g \in hs : g <= h].link
ShapeLineIndexes == {j \in 1 .. Len(report) : report[j].kind # "link"}

\* C9: in every output mode the report holds, in link order then shape order,
\* one line per processed shape with its link, its index among the shapes of
\* the link, its final size and its volume ratio or "undefined".
C9_ReportLines ==
    pc = "done" =>
        /\ Len(ShapeLines) = Len(processed)
        /\ \A n \in 1 .. Len(ShapeLines) :
              /\ ShapeLines[n].index = processed[n][2]
              /\ ShapeLines[n].size = geometry[processed[n]].size
              /\ ShapeLines[n].ratio.type \in {"float", "undefined"}
        /\ \A j \in ShapeLineIndexes :
              LinkAbove(j) = processed[Cardinality({h \in ShapeLineIndexes : h <= j})][1]

C10_State ==
    /\ \A s \in Shapes :
          /\ Count(processed, s) <= 1
          /\ Count(posed, s) <= 1
          /\ IsBox(s) = InSeq(processed, s)
          /\ IsBox(s) => ~(s[1] \in args.exclude)
    /\ IF pc = "geom" THEN posed = Append(processed, c) ELSE posed = processed
    /\ output.written =>
          \A n \in 1 .. Len(ExpectedOrder) :
              /\ IsBox(ExpectedOrder[n])
              /\ output.geometry[ExpectedOrder[n]].type = "box"

C10_Step ==
    \A s \in Shapes :
        IsBox(s) => (geometry'[s] = geometry[s] /\ origin'[s] = origin[s])

\* C10: in a run every selected shape goes from mesh to box exactly once, its
\* pose and its geometry replaced in the same iteration; a box is never
\* touched again, and when the document is written every selected shape is a
\* box.
C10_OnceMeshToBox == [](C10_State) /\ [][C10_Step]_vars

\* a written document, all three shapes selected and replaced
C10_Witness ==
    /\ pc = "done"
    /\ output.written
    /\ args.exclude = {}
    /\ Len(processed) = 3
    /\ \A s \in Shapes : IsBox(s)

====
